---- MODULE Spec2Model ----
(***************************************************************************)
(* A model of the htttp-server request pipeline (src/src/index.ts): the    *)
(* dispatcher, the CORS gate, the mock REST handler over the in-memory     *)
(* data set, and the static file handler with its cache negotiator.        *)
(*                                                                         *)
(* One action is one turn of the Node event loop: the synchronous part of  *)
(* the request callback, or one I/O completion callback.                   *)
(***************************************************************************)
EXTENDS Integers, Sequences, FiniteSets, TLC

(***************************************************************************)
(* Bounds of the model.                                                    *)
(***************************************************************************)
\* requests that arrive in one run
MaxRequests == 2
\* requests whose callbacks are outstanding at the same time
MaxInFlight == 2
\* key/value pairs in one request body
MaxPairs == 1
\* data chunks a file stream delivers for the non-empty file
MaxFileChunks == 1

(***************************************************************************)
(* JavaScript values.  A value carries its type, so that === between the   *)
(* number 1 and the string "1" is false as it is in the code.              *)
(***************************************************************************)
Str(s) == [t |-> "string", v |-> s]
Num(s) == [t |-> "number", v |-> s]

\* the object with no own keys
EmptyObj == [k \in {} |-> Str("")]

\* { ...a, ...b }: the keys of both, b's value where both have the key
Spread(a, b) ==
  [k \in (DOMAIN a) \cup (DOMAIN b) |-> IF k \in DOMAIN b THEN b[k] ELSE a[k]]

\* obj with obj[k] = v
Put(obj, k, v) == Spread(obj, [x \in {k} |-> v])

\* a truthy id: item.id, or undefined (modelled as the empty string value,
\* which no item id and no url segment equals)
Undefined == [t |-> "undefined", v |-> ""]
IdOf(item) == IF "id" \in DOMAIN item THEN item["id"] ELSE Undefined

(***************************************************************************)
(* Request bodies are token sequences; JSON.parse accepts `null` and       *)
(* `{ pair, ... }` and throws on everything else (the empty body and a     *)
(* truncated object among them).                                           *)
(***************************************************************************)
LBrace == [c |-> "{", k |-> "", v |-> Str("")]
RBrace == [c |-> "}", k |-> "", v |-> Str("")]
NullTok == [c |-> "null", k |-> "", v |-> Str("")]
Pair(k, v) == [c |-> "pair", k |-> k, v |-> v]

BodyPairs ==
  { Pair("id", Str("b")), Pair("name", Str("x")), Pair("age", Num("30")) }

RECURSIVE PairSeqs(_)
PairSeqs(n) ==
  IF n = 0 THEN { <<>> }
  ELSE PairSeqs(n - 1)
       \cup { Append(s, p) : s \in { q \in PairSeqs(n - 1) : Len(q) = n - 1 },
                             p \in BodyPairs }

ObjectText(pairs) == <<LBrace>> \o pairs \o <<RBrace>>

\* the bodies a client sends: objects, null, and two texts that are not JSON
Bodies ==
  { ObjectText(ps) : ps \in PairSeqs(MaxPairs) }
  \cup { <<NullTok>>, <<>>, <<LBrace>> }

\* what a client may have sent so far, and what it may send in one chunk
BodyPrefixes == UNION { { SubSeq(b, 1, k) : k \in 0..Len(b) } : b \in Bodies }
BodyChunks == UNION { { << b[i] >> : i \in 1..Len(b) } : b \in Bodies }

\* Buffer.concat(chunks).toString()
RECURSIVE Concat(_)
Concat(chunks) ==
  IF chunks = <<>> THEN <<>> ELSE Head(chunks) \o Concat(Tail(chunks))

\* the members of an object text, later keys winning
RECURSIVE Members(_)
Members(pairs) ==
  IF pairs = <<>> THEN EmptyObj
  ELSE LET p == pairs[Len(pairs)]
       IN Spread(Members(SubSeq(pairs, 1, Len(pairs) - 1)), [x \in {p.k} |-> p.v])

IsObjectText(text) ==
  /\ Len(text) >= 2
  /\ text[1] = LBrace
  /\ text[Len(text)] = RBrace
  /\ \A i \in 2..(Len(text) - 1) : text[i].c = "pair"

\* JSON.parse(body): ok = FALSE when it throws SyntaxError.  `obj` is what
\* spreading the parsed value yields ({...null} is {}).
JSONParse(text) ==
  IF IsObjectText(text)
    THEN [ok |-> TRUE, obj |-> Members(SubSeq(text, 2, Len(text) - 1))]
  ELSE IF text = <<NullTok>>
    THEN [ok |-> TRUE, obj |-> EmptyObj]
  ELSE [ok |-> FALSE, obj |-> EmptyObj]

(***************************************************************************)
(* Response chunks.  JSON.stringify is modelled by a tagged record.        *)
(***************************************************************************)
JsonError(msg) == [kind |-> "error", item |-> EmptyObj, list |-> <<>>, text |-> msg, n |-> 0]
JsonItem(it) == [kind |-> "item", item |-> it, list |-> <<>>, text |-> "", n |-> 0]
JsonList(l) == [kind |-> "list", item |-> EmptyObj, list |-> l, text |-> "", n |-> 0]
PlainText(s) == [kind |-> "text", item |-> EmptyObj, list |-> <<>>, text |-> s, n |-> 0]
FileBytes(f, i) == [kind |-> "bytes", item |-> EmptyObj, list |-> <<>>, text |-> f, n |-> i]

(***************************************************************************)
(* http.ServerResponse.  statusCode and headers are the object's           *)
(* properties; wireStatus, wireHeaders and wireBody are what has been put  *)
(* on the connection.  Headers go out with the first write or with end().  *)
(* `late` records what was attempted on the response after that point.     *)
(***************************************************************************)
NewRes ==
  [ statusCode |-> 200, headers |-> EmptyObj, headersSent |-> FALSE,
    finished |-> FALSE, ends |-> 0,
    wireStatus |-> 0, wireHeaders |-> EmptyObj, wireBody |-> <<>>,
    late |-> {} ]

\* res.statusCode = n: a plain property write; it changes nothing on the
\* connection once the headers are out
SetStatus(res, n) ==
  [res EXCEPT !.statusCode = n,
              !.late = IF res.headersSent THEN @ \cup {"statusCode"} ELSE @]

\* res.setHeader throws ERR_HTTP_HEADERS_SENT once the headers are out
SetHeaderThrows(res) == res.headersSent

SetHeader(res, k, v) ==
  IF SetHeaderThrows(res)
    THEN [res EXCEPT !.late = @ \cup {"setHeader"}]
    ELSE [res EXCEPT !.headers = Put(@, k, v)]

FlushHeaders(res) ==
  IF res.headersSent THEN res
  ELSE [res EXCEPT !.headersSent = TRUE,
                   !.wireStatus = res.statusCode,
                   !.wireHeaders = res.headers]

\* a 204 or 304 response carries no body
HasBody(status) == status \notin {204, 304}

\* res.write(chunk)
Write(res, chunk) ==
  IF res.finished
    THEN [res EXCEPT !.late = @ \cup {"write"}]
    ELSE LET f == FlushHeaders(res)
         IN [f EXCEPT !.wireBody = IF HasBody(f.wireStatus) THEN Append(@, chunk) ELSE @]

\* res.end(chunk) / res.end(): `chunks` holds the chunk, or is empty
End(res, chunks) ==
  IF res.finished
    THEN [res EXCEPT !.ends = @ + 1,
                     !.late = @ \cup (IF chunks = <<>> THEN {"end"} ELSE {"endChunk"})]
    ELSE LET f == FlushHeaders(res)
         IN [f EXCEPT !.finished = TRUE,
                      !.ends = @ + 1,
                      !.wireBody = IF HasBody(f.wireStatus) THEN @ \o chunks ELSE @]

\* a write after end is reported as an 'error' event on the response, which
\* has no listener
EmitsError(before, after) ==
  (after.late \ before.late) \cap {"write", "endChunk"} # {}

(***************************************************************************)
(* Constants of the program.                                               *)
(***************************************************************************)
API_PREFIX == "api"

\* DEFAULT_DATA: the ids are numbers
DEFAULT_DATA ==
  [ users |-> << [id |-> Num("1"), name |-> Str("tinywaves"), age |-> Num("10")],
                 [id |-> Num("2"), name |-> Str("Lyle Zheng"), age |-> Num("20")] >> ]

\* a seed file given with --data: its ids are strings, as ResourceItem declares
SeedFile ==
  [ users |-> << [id |-> Str("a"), name |-> Str("n")], [id |-> Str("b")] >>,
    posts |-> << >> ]

\* what the uuid generator returns, call by call: values no client knows
\* before the server has sent them
UuidTexts == << "u1", "u2", "u3", "u4", "u5", "u6" >>
V4(k) == Str(UuidTexts[k + 1])

\* property names every object literal inherits from Object.prototype
\* (the function-valued ones)
ObjectPrototypeNames ==
  { "constructor", "toString", "valueOf", "hasOwnProperty", "isPrototypeOf" }

(***************************************************************************)
(* The state.                                                              *)
(***************************************************************************)
VARIABLES
  options,    \* the ServerOptions the server was constructed with
  cors,       \* Server.cors
  cache,      \* Server.cache
  data,       \* Server.data: collection name -> list of items
  reqs,       \* the requests being handled, by connection
  nreq,       \* requests arrived so far
  uuids,      \* ids generated so far
  running,    \* FALSE once an uncaught failure has terminated the process
  inserted,   \* history: per collection, the generated ids in the order
              \* in which their POSTs completed
  log         \* history: the POSTs and PUTs with a valid body in the order in
              \* which their bodies completed, and the DELETEs at arrival,
              \* each with the answer it was given

vars == << options, cors, cache, data, reqs, nreq, uuids, running, inserted, log >>

Slots == 1..MaxInFlight

\* a connection with no request
IdleReq ==
  [ phase |-> "idle", method |-> "", url |-> <<>>, origin |-> "",
    inm |-> <<>>, chunks |-> <<>>, listener |-> "none",
    res |-> NewRes, invoked |-> {}, pending |-> {},
    pos |-> 0, fault |-> "none" ]

(***************************************************************************)
(* Server.processCors                                                      *)
(***************************************************************************)
\* a variant: the gate answers '*' instead of reflecting the origin
ProcessCorsWildcard(req, res) ==
  IF req.origin # ""
    THEN LET r1 == SetHeader(res, "Access-Control-Allow-Origin", Str("*"))
         IN IF req.method = "OPTIONS"
              THEN LET r2 == SetHeader(r1, "Access-Control-Allow-Methods",
                                       Str("GET, POST, PUT, DELETE"))
                       r3 == SetHeader(r2, "Access-Control-Allow-Headers", Str("Content-Type"))
                       r4 == SetHeader(r3, "Access-Control-Max-Age", Str("86400"))
                   IN End(SetStatus(r4, 200), <<>>)
              ELSE r1
    ELSE res

ProcessCors(req, res) ==
  IF req.origin # ""
    THEN LET r1 == SetHeader(res, "Access-Control-Allow-Origin", Str(req.origin))
         IN IF req.method = "OPTIONS"
              THEN LET r2 == SetHeader(r1, "Access-Control-Allow-Methods",
                                       Str("GET, POST, PUT, DELETE"))
                       r3 == SetHeader(r2, "Access-Control-Allow-Headers", Str("Content-Type"))
                       r4 == SetHeader(r3, "Access-Control-Max-Age", Str("86400"))
                   IN End(SetStatus(r4, 200), <<>>)
              ELSE r1
    ELSE res

(***************************************************************************)
(* Server.processApi                                                       *)
(***************************************************************************)
\* url.replace(`${API_PREFIX}/`, '').split('/') on the path /api/<name>[/<id>]
UrlParts(url) == IF Len(url) >= 2 THEN Tail(url) ELSE << "", API_PREFIX >>

ResourceName(url) == UrlParts(url)[1]

\* urlParts[1]; the empty string stands for undefined (both are falsy)
ResourceId(url) == IF Len(UrlParts(url)) >= 2 THEN UrlParts(url)[2] ELSE ""

\* this.data[resourceName]: an own collection, a function inherited from
\* Object.prototype (truthy, but no array), or undefined
Resolve(d, name) ==
  IF name \in DOMAIN d THEN "array"
  ELSE IF name \in ObjectPrototypeNames THEN "inherited"
  ELSE "undefined"

\* resourceData.findIndex((item) => item.id === resourceId), 1-based; 0 for -1
FindIndex(list, rid) ==
  IF \E i \in 1..Len(list) : IdOf(list[i]) = Str(rid)
    THEN CHOOSE i \in 1..Len(list) :
           /\ IdOf(list[i]) = Str(rid)
           /\ \A j \in 1..(i - 1) : IdOf(list[j]) # Str(rid)
    ELSE 0

\* a variant: splice(index), which removes everything from index on
SpliceToEnd(list, i) == SubSeq(list, 1, i - 1)

\* resourceData.splice(index, 1)
Splice(list, i) == SubSeq(list, 1, i - 1) \o SubSeq(list, i + 1, Len(list))

ApiError(res, status, msg) == End(SetStatus(res, status), << JsonError(msg) >>)

\* the catch of processApi
ApiCatch(res) == ApiError(res, 500, "Internal server error")

ApiOut(res, d, listener, rejected) ==
  [ res |-> res, data |-> d, listener |-> listener, rejected |-> rejected ]

ApiGet(res, d, name, rid) ==
  IF rid # ""
    THEN IF Resolve(d, name) = "inherited"
           THEN ApiCatch(res)   \* resourceData.find is not a function
           ELSE LET i == FindIndex(d[name], rid)
                IN IF i = 0 THEN ApiError(res, 404, "Item not found")
                   ELSE End(res, << JsonItem(d[name][i]) >>)
    ELSE IF Resolve(d, name) = "inherited"
           THEN End(res, <<>>)  \* JSON.stringify of a function is undefined
           ELSE End(res, << JsonList(d[name]) >>)

\* a variant: the splice runs before the index is checked, and splice(-1, 1)
\* removes the last item
ApiDeleteSpliceFirst(res, d, name, rid) ==
  IF rid = "" THEN ApiOut(ApiError(res, 400, "Resource ID is required"), d, "none", FALSE)
  ELSE IF Resolve(d, name) = "inherited"
    THEN ApiOut(ApiCatch(res), d, "none", FALSE)
  ELSE LET i == FindIndex(d[name], rid)
       IN IF i = 0
            THEN ApiOut(ApiError(res, 404, "Item not found"),
                        [d EXCEPT ![name] = SubSeq(@, 1, Len(@) - 1)], "none", FALSE)
            ELSE ApiOut(End(SetStatus(res, 204), <<>>),
                        [d EXCEPT ![name] = Splice(@, i)], "none", FALSE)

ApiDelete(res, d, name, rid) ==
  IF rid = "" THEN ApiOut(ApiError(res, 400, "Resource ID is required"), d, "none", FALSE)
  ELSE IF Resolve(d, name) = "inherited"
    THEN ApiOut(ApiCatch(res), d, "none", FALSE)
  ELSE LET i == FindIndex(d[name], rid)
       IN IF i = 0
            THEN ApiOut(ApiError(res, 404, "Item not found"), d, "none", FALSE)
            ELSE ApiOut(End(SetStatus(res, 204), <<>>),
                        [d EXCEPT ![name] = Splice(@, i)], "none", FALSE)

\* a variant: a method that is not handled is answered 404
ProcessApiNoMethodCheck(req, res, d) ==
  LET name == ResourceName(req.url)
      rid == ResourceId(req.url)
  IN IF Resolve(d, name) = "undefined"
       THEN ApiOut(ApiError(res, 404, "Resource not found"), d, "none", FALSE)
     ELSE IF SetHeaderThrows(res)
       THEN ApiOut(SetHeader(res, "Content-Type", Str("application/json")), d, "none", TRUE)
     ELSE LET r == SetHeader(res, "Content-Type", Str("application/json"))
          IN CASE req.method = "GET" -> ApiOut(ApiGet(r, d, name, rid), d, "none", FALSE)
               [] req.method = "POST" -> ApiOut(r, d, "POST", FALSE)
               [] req.method = "PUT" ->
                    IF rid = ""
                      THEN ApiOut(ApiError(r, 400, "Resource ID is required"), d, "none", FALSE)
                      ELSE ApiOut(r, d, "PUT", FALSE)
               [] req.method = "DELETE" -> ApiDelete(r, d, name, rid)
               [] OTHER -> ApiOut(ApiError(r, 404, "Resource not found"), d, "none", FALSE)

\* the synchronous part of processApi: up to the registration of the body
\* listeners for POST and PUT
ProcessApi(req, res, d) ==
  LET name == ResourceName(req.url)
      rid == ResourceId(req.url)
  IN IF Resolve(d, name) = "undefined"
       THEN ApiOut(ApiError(res, 404, "Resource not found"), d, "none", FALSE)
     ELSE IF SetHeaderThrows(res)
       \* line 122 is outside the try: the returned promise rejects
       THEN ApiOut(SetHeader(res, "Content-Type", Str("application/json")), d, "none", TRUE)
     ELSE LET r == SetHeader(res, "Content-Type", Str("application/json"))
          IN CASE req.method = "GET" -> ApiOut(ApiGet(r, d, name, rid), d, "none", FALSE)
               [] req.method = "POST" -> ApiOut(r, d, "POST", FALSE)
               [] req.method = "PUT" ->
                    IF rid = ""
                      THEN ApiOut(ApiError(r, 400, "Resource ID is required"), d, "none", FALSE)
                      ELSE ApiOut(r, d, "PUT", FALSE)
               [] req.method = "DELETE" -> ApiDelete(r, d, name, rid)
               [] OTHER -> ApiOut(ApiError(r, 405, "Method not allowed"), d, "none", FALSE)

(***************************************************************************)
(* The file system under baseDir, as the static handler reads it.          *)
(***************************************************************************)
\* fs.stat(path.join(baseDir, requestUrl)): a file, a directory, or ENOENT.
\* path.join resolves `..` segments, so /../out.txt names the file out.txt
\* beside baseDir.
PathKind(url) ==
  IF url \in { <<"f.txt">>, <<"empty.txt">>, <<"secret.txt">>, <<"..", "out.txt">> }
    THEN "file"
  ELSE IF url \in { <<"dir">>, <<"locked">>, <<"links">> } THEN "dir"
  ELSE "missing"

\* the path stays inside baseDir
UnderRoot(url) == \A i \in 1..Len(url) : url[i] # ".."

\* fs.readdir(dir) rejects: a directory without read permission
ReaddirThrows(url) == url = <<"locked">>

\* statSync(path.join(dir, contentName)) throws: a dangling symbolic link
ChildStatThrows(url) == url = <<"links">>

\* createReadStream(file) cannot open the file (no read permission): the
\* stream emits 'error'
OpenThrows(url) == url = <<"secret.txt">>

\* stat.mtime.getTime() and stat.size (the size counted in stream chunks)
FileStat(url) ==
  IF url = <<"f.txt">> THEN [mtime |-> 1700, size |-> MaxFileChunks]
  ELSE [mtime |-> 1600, size |-> 0]

\* `${stat.mtime.getTime()}-${stat.size}`: the pair stands for the text,
\* which determines both numbers
Etag(stat) == << stat.mtime, stat.size >>

\* fs.readdir(dir) with statSync(child).size
DirChildren(url) == << [contentName |-> "a.txt", size |-> 3], [contentName |-> "b.txt", size |-> 5] >>

\* path.join(requestUrl, contentName)
PathJoin(url, child) == Append(url, child)

DirEntries(url) ==
  [ i \in 1..Len(DirChildren(url)) |->
      [ contentName |-> DirChildren(url)[i].contentName,
        href |-> PathJoin(url, DirChildren(url)[i].contentName),
        size |-> DirChildren(url)[i].size ] ]

\* ejs.render(TMPL, { directories })
Render(entries) == [kind |-> "html", item |-> EmptyObj, list |-> entries, text |-> "", n |-> 0]

\* `${mine.getType(file) ?? 'text/plain'};charset=utf-8`: both files are .txt
ContentType(url) == "text/plain;charset=utf-8"

\* decodeURIComponent(req.url) throws URIError on a malformed escape
DecodeThrows(url) == url = <<"%">>

\* requestUrl.startsWith(API_PREFIX)
IsApiUrl(url) == url # <<>> /\ url[1] = API_PREFIX

(***************************************************************************)
(* Server.constructor                                                      *)
(***************************************************************************)
OptionSets ==
  [ dataPosition : { "", "data.json" },
    cors : BOOLEAN,
    cache : { "absent", "true" } ]

ConstructData(opts) == IF opts.dataPosition # "" THEN SeedFile ELSE DEFAULT_DATA
ConstructCors(opts) == opts.cors
\* cache starts true; `if (!options?.cache) this.cache = false`
ConstructCache(opts) == IF ~(opts.cache = "true") THEN FALSE ELSE TRUE

Init ==
  /\ options \in OptionSets
  /\ cors = ConstructCors(options)
  /\ cache = ConstructCache(options)
  /\ data = ConstructData(options)
  /\ reqs = [s \in Slots |-> IdleReq]
  /\ nreq = 0
  /\ uuids = 0
  /\ running = TRUE
  /\ inserted = [c \in DOMAIN data |-> << >>]
  /\ log = << >>

(***************************************************************************)
(* Bookkeeping of the event loop.                                          *)
(***************************************************************************)
\* a request whose response has ended and which has no callback outstanding
\* leaves its connection at the next turn of the loop
Swept == [s \in Slots |-> IF reqs[s].phase = "done" THEN IdleReq ELSE reqs[s]]

Settle(r) ==
  [r EXCEPT !.phase = IF r.listener = "none" /\ r.pending = {} THEN "done" ELSE "active"]

\* what a failure does to the process: an exception thrown in an event
\* callback is uncaught and ends it; an unhandled promise rejection and an
\* unlistened 'error' event end it or not, by Node version and flags
CrashChoices(fault) ==
  IF fault = "none" THEN { FALSE }
  ELSE IF fault = "uncaught" THEN { TRUE }
  ELSE BOOLEAN

FaultOf(rejected, before, after) ==
  IF rejected THEN "rejection"
  ELSE IF EmitsError(before, after) THEN "errorEvent"
  ELSE "none"

FreeSlot(s) ==
  /\ Swept[s].phase = "idle"
  /\ \A t \in Slots : t < s => Swept[t].phase # "idle"

(***************************************************************************)
(* What a client may send.                                                 *)
(***************************************************************************)
Methods == { "GET", "POST", "PUT", "DELETE", "OPTIONS", "PATCH" }

\* ids a client can put in a url: fixed ones, and the ids the server has
\* generated so far
UrlIds == { "1", "a" } \cup { UuidTexts[k] : k \in 1..uuids }

ApiUrls ==
  { <<API_PREFIX, n>> : n \in { "users", "posts", "widgets", "constructor" } }
  \cup { <<API_PREFIX, "users", i>> : i \in UrlIds }
  \cup { <<API_PREFIX, "posts", UuidTexts[k]>> : k \in 1..uuids }
  \cup { <<API_PREFIX, n, "a">> : n \in { "widgets", "constructor" } }

StaticUrls ==
  { <<"f.txt">>, <<"empty.txt">>, <<"secret.txt">>, <<"..", "out.txt">>,
    <<"dir">>, <<"locked">>, <<"links">>, <<"nofile">>, <<"%">> }

Origins == { "", "http://example.com" }

\* if-none-match: absent, the file's current Etag, or a stale one
IfNoneMatches(url) ==
  IF PathKind(url) = "file" THEN { <<>>, Etag(FileStat(url)), <<1500, 1>> } ELSE { <<>> }

\* a header the server never reads is left out of the request
SentOrigins == IF cors THEN Origins ELSE { "" }
SentIfNoneMatches(url) == IF cache THEN IfNoneMatches(url) ELSE { <<>> }

(***************************************************************************)
(* Server.start: the request callback, up to its first suspension.         *)
(***************************************************************************)
NotFoundCatch(res) == End(SetStatus(res, 404), << PlainText("Not found") >>)

Dispatch(req, d) ==
  LET gated == IF cors THEN ProcessCors(req, NewRes) ELSE NewRes
      inv == IF cors THEN { "cors" } ELSE {}
  IN IF DecodeThrows(req.url)
       THEN LET r == NotFoundCatch(gated)
            IN [ req |-> [req EXCEPT !.res = r, !.invoked = inv,
                                     !.fault = FaultOf(FALSE, gated, r)],
                 data |-> d ]
     ELSE IF IsApiUrl(req.url)
       THEN LET a == ProcessApi(req, gated, d)
            IN [ req |-> [req EXCEPT !.res = a.res, !.invoked = inv \cup { "api" },
                                     !.listener = a.listener,
                                     !.fault = FaultOf(a.rejected, gated, a.res)],
                 data |-> a.data ]
     ELSE [ req |-> [req EXCEPT !.res = gated, !.invoked = inv,
                                !.pending = { "pathStat" }],
            data |-> d ]

\* what the history records of a request on a collection
Logged(req, d) ==
  /\ ~DecodeThrows(req.url)
  /\ IsApiUrl(req.url)
  /\ Resolve(d, ResourceName(req.url)) = "array"

LogEntry(req, body, id, res, s) ==
  [ method |-> req.method, name |-> ResourceName(req.url), rid |-> ResourceId(req.url),
    body |-> body, id |-> id,
    status |-> res.wireStatus, answer |-> res.wireBody, slot |-> s ]

\* a request arrives: the callback of http.createServer runs
Arrive(s, method, url) ==
  /\ running
  /\ nreq < MaxRequests
  /\ FreeSlot(s)
  /\ \E origin \in SentOrigins, inm \in SentIfNoneMatches(url) :
            LET r0 == [IdleReq EXCEPT !.method = method, !.url = url,
                                      !.origin = origin, !.inm = inm]
                out == Dispatch(r0, data)
            IN \E crash \in CrashChoices(out.req.fault) :
                 /\ reqs' = [Swept EXCEPT ![s] = Settle(out.req)]
                 /\ data' = out.data
                 /\ running' = ~crash
                 /\ log' = IF method = "DELETE" /\ Logged(r0, data)
                             THEN Append(log, LogEntry(r0, EmptyObj, Undefined, out.req.res, s))
                             ELSE log
  /\ nreq' = nreq + 1
  /\ UNCHANGED << options, cors, cache, uuids, inserted >>

ArriveApi(s) == \E method \in Methods, url \in ApiUrls : Arrive(s, method, url)

\* the static handler reads no method; OPTIONS is what the gate looks for
ArriveStatic(s) == \E method \in { "GET", "OPTIONS" }, url \in StaticUrls : Arrive(s, method, url)

(***************************************************************************)
(* Server.processApi: the 'data' and 'end' callbacks of POST and PUT.      *)
(***************************************************************************)
\* req.on('data', (chunk) => chunks.push(chunk)): the client sends the
\* next chunk of its body
BodyData(s) ==
  /\ running
  /\ reqs[s].phase = "active"
  /\ reqs[s].listener # "none"
  /\ \E chunk \in BodyChunks :
       /\ Concat(reqs[s].chunks) \o chunk \in BodyPrefixes
       /\ reqs' = [Swept EXCEPT ![s] =
                     [reqs[s] EXCEPT !.chunks = Append(@, chunk), !.fault = "none"]]
  /\ UNCHANGED << options, cors, cache, data, nreq, uuids, running, inserted, log >>

EndOut(res, d, fault, used) == [ res |-> res, data |-> d, fault |-> fault, used |-> used ]

\* a variant: unshift instead of push
OnPostEndUnshift(req, d, k) ==
  LET parsed == JSONParse(Concat(req.chunks))
      name == ResourceName(req.url)
      newItem == Put(parsed.obj, "id", V4(k))
  IN IF ~parsed.ok THEN EndOut(req.res, d, "uncaught", 0)
     ELSE IF Resolve(d, name) = "inherited"
       THEN EndOut(req.res, d, "uncaught", 1)
     ELSE LET r == End(SetStatus(req.res, 201), << JsonItem(newItem) >>)
          IN EndOut(r, [d EXCEPT ![name] = << newItem >> \o @],
                    FaultOf(FALSE, req.res, r), 1)

\* a variant: an id supplied in the body is kept
OnPostEndKeepId(req, d, k) ==
  LET parsed == JSONParse(Concat(req.chunks))
      name == ResourceName(req.url)
      newItem == Spread([x \in {"id"} |-> V4(k)], parsed.obj)
  IN IF ~parsed.ok THEN EndOut(req.res, d, "uncaught", 0)
     ELSE IF Resolve(d, name) = "inherited"
       THEN EndOut(req.res, d, "uncaught", 1)
     ELSE LET r == End(SetStatus(req.res, 201), << JsonItem(newItem) >>)
          IN EndOut(r, [d EXCEPT ![name] = Append(@, newItem)],
                    FaultOf(FALSE, req.res, r), 1)

\* the 'end' callback of POST.  It runs on the event loop, outside the try
\* of processApi: whatever it throws is an uncaught exception.
OnPostEnd(req, d, k) ==
  LET parsed == JSONParse(Concat(req.chunks))
      name == ResourceName(req.url)
      newItem == Put(parsed.obj, "id", V4(k))
  IN IF ~parsed.ok THEN EndOut(req.res, d, "uncaught", 0)
     ELSE IF Resolve(d, name) = "inherited"
       THEN EndOut(req.res, d, "uncaught", 1)   \* resourceData.push is not a function
     ELSE LET r == End(SetStatus(req.res, 201), << JsonItem(newItem) >>)
          IN EndOut(r, [d EXCEPT ![name] = Append(@, newItem)],
                    FaultOf(FALSE, req.res, r), 1)

\* a variant: an upsert, which stores the body when no item has the id
OnPutEndUpsert(req, d) ==
  LET parsed == JSONParse(Concat(req.chunks))
      name == ResourceName(req.url)
      rid == ResourceId(req.url)
  IN IF ~parsed.ok THEN EndOut(req.res, d, "uncaught", 0)
     ELSE IF Resolve(d, name) = "inherited"
       THEN EndOut(req.res, d, "uncaught", 0)
     ELSE LET index == FindIndex(d[name], rid)
          IN IF index = 0
               THEN LET r == End(req.res, << JsonItem(parsed.obj) >>)
                    IN EndOut(r, [d EXCEPT ![name] = Append(@, parsed.obj)],
                              FaultOf(FALSE, req.res, r), 0)
               ELSE LET merged == Spread(d[name][index], parsed.obj)
                        r == End(req.res, << JsonItem(merged) >>)
                    IN EndOut(r, [d EXCEPT ![name][index] = merged],
                              FaultOf(FALSE, req.res, r), 0)

\* a variant: a merge in which the stored item's fields win over the body's
OnPutEndItemWins(req, d) ==
  LET parsed == JSONParse(Concat(req.chunks))
      name == ResourceName(req.url)
      rid == ResourceId(req.url)
  IN IF ~parsed.ok THEN EndOut(req.res, d, "uncaught", 0)
     ELSE IF Resolve(d, name) = "inherited"
       THEN EndOut(req.res, d, "uncaught", 0)
     ELSE LET index == FindIndex(d[name], rid)
          IN IF index = 0
               THEN LET r == ApiError(req.res, 404, "Item not found")
                    IN EndOut(r, d, FaultOf(FALSE, req.res, r), 0)
               ELSE LET merged == Spread(parsed.obj, d[name][index])
                        r == End(req.res, << JsonItem(merged) >>)
                    IN EndOut(r, [d EXCEPT ![name][index] = merged],
                              FaultOf(FALSE, req.res, r), 0)

\* a variant: the merge starts from the item the server was constructed
\* with, not from the item as it is when the body completes
OnPutEndStale(req, d) ==
  LET parsed == JSONParse(Concat(req.chunks))
      name == ResourceName(req.url)
      rid == ResourceId(req.url)
  IN IF ~parsed.ok THEN EndOut(req.res, d, "uncaught", 0)
     ELSE IF Resolve(d, name) = "inherited"
       THEN EndOut(req.res, d, "uncaught", 0)
     ELSE LET index == FindIndex(d[name], rid)
              old == ConstructData(options)[name]
          IN IF index = 0
               THEN LET r == ApiError(req.res, 404, "Item not found")
                    IN EndOut(r, d, FaultOf(FALSE, req.res, r), 0)
               ELSE LET merged == Spread(IF index <= Len(old) THEN old[index]
                                         ELSE d[name][index], parsed.obj)
                        r == End(req.res, << JsonItem(merged) >>)
                    IN EndOut(r, [d EXCEPT ![name][index] = merged],
                              FaultOf(FALSE, req.res, r), 0)

\* the 'end' callback of PUT
OnPutEnd(req, d) ==
  LET parsed == JSONParse(Concat(req.chunks))
      name == ResourceName(req.url)
      rid == ResourceId(req.url)
  IN IF ~parsed.ok THEN EndOut(req.res, d, "uncaught", 0)
     ELSE IF Resolve(d, name) = "inherited"
       THEN EndOut(req.res, d, "uncaught", 0)   \* resourceData.findIndex is not a function
     ELSE LET index == FindIndex(d[name], rid)
          IN IF index = 0
               THEN LET r == ApiError(req.res, 404, "Item not found")
                    IN EndOut(r, d, FaultOf(FALSE, req.res, r), 0)
               ELSE LET merged == Spread(d[name][index], parsed.obj)
                        r == End(req.res, << JsonItem(merged) >>)
                    IN EndOut(r, [d EXCEPT ![name][index] = merged],
                              FaultOf(FALSE, req.res, r), 0)

BodyEnd(s) ==
  /\ running
  /\ reqs[s].phase = "active"
  /\ reqs[s].listener # "none"
  /\ Concat(reqs[s].chunks) \in Bodies
  /\ LET out == IF reqs[s].listener = "POST"
                  THEN OnPostEnd(reqs[s], data, uuids)
                  ELSE OnPutEnd(reqs[s], data)
     IN /\ \E crash \in CrashChoices(out.fault) :
             /\ reqs' = [Swept EXCEPT ![s] =
                           Settle([reqs[s] EXCEPT !.res = out.res, !.listener = "none",
                                                  !.invoked = @ \cup { "end" },
                                                  !.fault = out.fault])]
             /\ running' = ~crash
        /\ data' = out.data
        /\ uuids' = uuids + out.used
        /\ inserted' = IF reqs[s].listener = "POST" /\ out.res.wireStatus = 201
                          THEN [inserted EXCEPT ![ResourceName(reqs[s].url)] =
                                  Append(@, V4(uuids))]
                          ELSE inserted
        /\ log' = IF Logged(reqs[s], data) /\ JSONParse(Concat(reqs[s].chunks)).ok
                     THEN Append(log, LogEntry(reqs[s],
                                               JSONParse(Concat(reqs[s].chunks)).obj,
                                               IF out.used = 1 THEN V4(uuids) ELSE Undefined,
                                               out.res, s))
                     ELSE log
  /\ UNCHANGED << options, cors, cache, nreq >>

(***************************************************************************)
(* The static handler: the continuation of Server.start after fs.stat,     *)
(* Server.processDirectory, Server.processFile and Server.processCache.    *)
(***************************************************************************)
StaticOut(res, pending, rejected) ==
  [ res |-> res, pending |-> pending, rejected |-> rejected ]

\* processFile up to its return: processCache is called but not awaited, so
\* its fs.stat is outstanding while the file stream is set up
ProcessFile(req) ==
  LET cacheStat == IF cache THEN { "cacheStat" } ELSE {}
  IN IF SetHeaderThrows(req.res)
       THEN StaticOut(SetHeader(req.res, "Content-Type", Str(ContentType(req.url))),
                      cacheStat, TRUE)
       ELSE StaticOut(SetHeader(req.res, "Content-Type", Str(ContentType(req.url))),
                      cacheStat \cup { "stream" }, FALSE)

\* `await fs.stat(wholePath)` has settled
PathStatDone(s) ==
  /\ running
  /\ reqs[s].phase = "active"
  /\ "pathStat" \in reqs[s].pending
  /\ LET req == reqs[s]
         out == CASE PathKind(req.url) = "missing" ->
                       StaticOut(NotFoundCatch(req.res), {}, FALSE)
                  [] PathKind(req.url) = "dir" ->
                       StaticOut(req.res, { "readdir" }, FALSE)
                  [] OTHER -> ProcessFile(req)
         fault == FaultOf(out.rejected, req.res, out.res)
     IN \E crash \in CrashChoices(fault) :
          /\ reqs' = [Swept EXCEPT ![s] =
                        Settle([req EXCEPT !.res = out.res, !.pending = out.pending,
                                           !.invoked = IF PathKind(req.url) = "missing"
                                                         THEN @ ELSE @ \cup { "static" },
                                           !.fault = fault])]
          /\ running' = ~crash
  /\ UNCHANGED << options, cors, cache, data, nreq, uuids, inserted, log >>

\* processDirectory after `await fs.readdir(dir)`
ReaddirDone(s) ==
  /\ running
  /\ reqs[s].phase = "active"
  /\ "readdir" \in reqs[s].pending
  /\ LET req == reqs[s]
         failed == ReaddirThrows(req.url) \/ ChildStatThrows(req.url)
         rejected == failed \/ SetHeaderThrows(req.res)
         h == SetHeader(req.res, "Content-Type", Str("text/html;charset=utf-8"))
         r == IF failed THEN req.res
              ELSE IF rejected THEN h
              ELSE End(h, << Render(DirEntries(req.url)) >>)
         fault == FaultOf(rejected, req.res, r)
     IN \E crash \in CrashChoices(fault) :
          /\ reqs' = [Swept EXCEPT ![s] =
                        Settle([req EXCEPT !.res = r, !.pending = @ \ { "readdir" },
                                           !.fault = fault])]
          /\ running' = ~crash
  /\ UNCHANGED << options, cors, cache, data, nreq, uuids, inserted, log >>

\* processCache after `await fs.stat(file)`
ProcessCache(req) ==
  LET etag == Etag(FileStat(req.url))
      ifNoneMatch == req.inm
  IN IF SetHeaderThrows(req.res)
       THEN StaticOut(SetHeader(req.res, "Etag", etag), req.pending \ { "cacheStat" }, TRUE)
       ELSE LET r == SetHeader(SetHeader(req.res, "Etag", etag),
                               "Cache-Control", Str("max-age=10"))
            IN IF ifNoneMatch # <<>> /\ ifNoneMatch = etag
                 THEN StaticOut(End(SetStatus(r, 304), <<>>), req.pending \ { "cacheStat" }, FALSE)
                 ELSE StaticOut(r, req.pending \ { "cacheStat" }, FALSE)

CacheStatDone(s) ==
  /\ running
  /\ reqs[s].phase = "active"
  /\ "cacheStat" \in reqs[s].pending
  /\ LET req == reqs[s]
         out == ProcessCache(req)
         fault == FaultOf(out.rejected, req.res, out.res)
     IN \E crash \in CrashChoices(fault) :
          /\ reqs' = [Swept EXCEPT ![s] =
                        Settle([req EXCEPT !.res = out.res, !.pending = out.pending,
                                           !.fault = fault])]
          /\ running' = ~crash
  /\ UNCHANGED << options, cors, cache, data, nreq, uuids, inserted, log >>

\* createReadStream(file).pipe(res): one 'data' event.  Once the response
\* has ended, pipe either has already unpiped on 'finish' or still writes.
StreamData(s) ==
  /\ running
  /\ reqs[s].phase = "active"
  /\ "stream" \in reqs[s].pending
  /\ ~OpenThrows(reqs[s].url)
  /\ reqs[s].pos < FileStat(reqs[s].url).size
  /\ LET req == reqs[s]
     IN \E unpiped \in (IF req.res.finished THEN BOOLEAN ELSE { FALSE }) :
          LET r == IF unpiped THEN req.res
                   ELSE Write(req.res, FileBytes(req.url[1], req.pos + 1))
              fault == FaultOf(FALSE, req.res, r)
          IN \E crash \in CrashChoices(fault) :
               /\ reqs' = [Swept EXCEPT ![s] =
                             Settle([req EXCEPT !.res = r,
                                                !.pos = IF req.res.finished THEN @ ELSE @ + 1,
                                                !.pending = IF req.res.finished
                                                              THEN @ \ { "stream" } ELSE @,
                                                !.fault = fault])]
               /\ running' = ~crash
  /\ UNCHANGED << options, cors, cache, data, nreq, uuids, inserted, log >>

\* the stream's 'end' event: pipe calls res.end()
StreamEnd(s) ==
  /\ running
  /\ reqs[s].phase = "active"
  /\ "stream" \in reqs[s].pending
  /\ ~OpenThrows(reqs[s].url)
  /\ reqs[s].pos = FileStat(reqs[s].url).size
  /\ LET req == reqs[s]
     IN \E unpiped \in (IF req.res.finished THEN BOOLEAN ELSE { FALSE }) :
          LET r == IF unpiped THEN req.res ELSE End(req.res, <<>>)
          IN reqs' = [Swept EXCEPT ![s] =
                        Settle([req EXCEPT !.res = r, !.pending = @ \ { "stream" },
                                           !.fault = "none"])]
  /\ UNCHANGED << options, cors, cache, data, nreq, uuids, running, inserted, log >>

\* the stream's 'error' event: the file could not be opened.  The stream
\* has no 'error' listener (pipe adds none to its source), so the event is
\* thrown as an uncaught exception.
StreamError(s) ==
  /\ running
  /\ reqs[s].phase = "active"
  /\ "stream" \in reqs[s].pending
  /\ OpenThrows(reqs[s].url)
  /\ reqs' = [Swept EXCEPT ![s] =
                Settle([reqs[s] EXCEPT !.pending = @ \ { "stream" },
                                       !.fault = "uncaught"])]
  /\ running' = FALSE
  /\ UNCHANGED << options, cors, cache, data, nreq, uuids, inserted, log >>

(***************************************************************************)
(* The specification.                                                      *)
(***************************************************************************)
Next ==
  \E s \in Slots :
    \/ ArriveApi(s)
    \/ ArriveStatic(s)
    \/ BodyData(s)
    \/ BodyEnd(s)
    \/ PathStatDone(s)
    \/ ReaddirDone(s)
    \/ CacheStatDone(s)
    \/ StreamData(s)
    \/ StreamEnd(s)
    \/ StreamError(s)

Spec == Init /\ [][Next]_vars

\* The mock API on its own: the runs in which every request is an API
\* request.  The API handler never reads Server.cache, so the server is
\* constructed as the command line constructs it, without a cache option.
InitApi == Init /\ options.cache = "absent"

NextApi ==
  \E s \in Slots :
    \/ ArriveApi(s)
    \/ BodyData(s)
    \/ BodyEnd(s)

SpecApi == InitApi /\ [][NextApi]_vars

\* The static handler on its own: the runs in which no request is an API
\* request.  It never reads Server.data, so the server keeps the default seed.
InitStatic == Init /\ options.dataPosition = ""

NextStatic ==
  \E s \in Slots :
    \/ ArriveStatic(s)
    \/ PathStatDone(s)
    \/ ReaddirDone(s)
    \/ CacheStatDone(s)
    \/ StreamData(s)
    \/ StreamEnd(s)
    \/ StreamError(s)

SpecStatic == InitStatic /\ [][NextStatic]_vars

(***************************************************************************)
(* Vocabulary of the properties.                                           *)
(***************************************************************************)
\* the request on connection s arrived in this step
Arrived(s) == reqs[s].phase # "active" /\ reqs'[s].phase # "idle"

\* the 'end' callback of the request on connection s ran in this step
BodyEnded(s) ==
  /\ reqs[s].phase = "active"
  /\ reqs[s].listener # "none"
  /\ reqs'[s].phase = "done"
  /\ "end" \in reqs'[s].invoked

\* the CORS gate has answered the request: a preflight
Preflight(req) == cors /\ req.method = "OPTIONS" /\ req.origin # ""

OnCollection(req) == IsApiUrl(req.url) /\ ResourceName(req.url) \in DOMAIN data

IdsOf(list) == { IdOf(list[i]) : i \in 1..Len(list) }

UniqueIds(list) ==
  \A i, j \in 1..Len(list) : i # j => IdOf(list[i]) # IdOf(list[j])

(***************************************************************************)
(* C1.  With CORS enabled, once the gate has answered a request (OPTIONS   *)
(* with an Origin header: 200, response ended), dispatch stops: neither    *)
(* the API handler nor the static handler is invoked for it, and nothing   *)
(* further is set or written on its response.                              *)
(***************************************************************************)
C1_DispatchStopsAfterPreflight ==
  \A s \in Slots :
    (reqs[s].phase # "idle" /\ Preflight(reqs[s]))
      => /\ reqs[s].invoked \cap { "api", "static" } = {}
         /\ reqs[s].res.late = {}

(***************************************************************************)
(* C2.  A POST, or a PUT with an id, on an existing collection whose fully *)
(* received body is not valid JSON is answered 500 with                    *)
(* {error:"Internal server error"}, and the server keeps running.          *)
(***************************************************************************)
C2_MalformedBodyAnswered500 ==
  \A s \in Slots :
    ( /\ reqs[s].phase = "done"
      /\ "end" \in reqs[s].invoked
      /\ OnCollection(reqs[s])
      /\ ~JSONParse(Concat(reqs[s].chunks)).ok )
      => /\ reqs[s].res.finished
         /\ reqs[s].res.wireStatus = 500
         /\ reqs[s].res.wireBody = << JsonError("Internal server error") >>
         /\ running

(***************************************************************************)
(* C3.  With caching enabled, a GET of a file whose if-none-match equals   *)
(* the file's Etag is answered 304 with an empty body, under every         *)
(* ordering of the cache stat and the stream's reads.                      *)
(***************************************************************************)
C3_ConditionalGetAnswered304 ==
  \A s \in Slots :
    ( /\ cache
      /\ reqs[s].phase = "done"
      /\ reqs[s].method = "GET"
      /\ PathKind(reqs[s].url) = "file"
      /\ reqs[s].inm = Etag(FileStat(reqs[s].url))
      /\ reqs[s].res.finished )
      => /\ reqs[s].res.wireStatus = 304
         /\ reqs[s].res.wireBody = << >>

(***************************************************************************)
(* C4.  No collection ever holds two items with the same id.               *)
(***************************************************************************)
C4_IdsUnique == \A c \in DOMAIN data : UniqueIds(data[c])

(***************************************************************************)
(* C5.  When the only requests so far are two POSTs with valid bodies to   *)
(* a collection that was empty, whatever the interleaving of their body    *)
(* chunks, the collection holds exactly two items, their ids are the two   *)
(* distinct generated ids in the order in which the bodies completed, the  *)
(* POST that completed last was answered with the last item, and GET       *)
(* without id returns the two items in that order.                         *)
(***************************************************************************)
TwoPostsDone(c) ==
  /\ nreq = 2
  /\ ConstructData(options)[c] = << >>
  /\ Len(inserted[c]) = 2

C5_TwoPostsInCompletionOrder ==
  \A c \in DOMAIN data :
    TwoPostsDone(c) =>
      /\ Len(data[c]) = 2
      /\ \A i \in 1..2 : IdOf(data[c][i]) = inserted[c][i]
      /\ IdOf(data[c][1]) # IdOf(data[c][2])
      /\ \A s \in Slots :
           (reqs[s].phase = "done" /\ reqs[s].method = "POST")
             => /\ reqs[s].res.wireStatus = 201
                /\ reqs[s].res.wireBody = << JsonItem(data[c][2]) >>
      /\ LET get == ApiGet(NewRes, data, c, "")
         IN /\ get.wireStatus = 200
            /\ Len(get.wireBody) = 1
            /\ get.wireBody[1].kind = "list"
            /\ Len(get.wireBody[1].list) = 2
            /\ \A i \in 1..2 : IdOf(get.wireBody[1].list[i]) = inserted[c][i]

C5_Witness == \E c \in DOMAIN data : TwoPostsDone(c) /\ Len(data[c]) = 2

(***************************************************************************)
(* C6.  DELETE with the id of an item of the collection answers 204 with   *)
(* no body and removes exactly one item with that id, the other items      *)
(* keeping their order; the other collections are untouched.  When the     *)
(* item was the only one, GET without id then returns the empty list and   *)
(* GET on the id returns 404 {error:"Item not found"}.                     *)
(***************************************************************************)
Without(list, i) ==
  [ j \in 1..(Len(list) - 1) |-> IF j < i THEN list[j] ELSE list[j + 1] ]

DeleteOfExisting(s) ==
  /\ Arrived(s)
  /\ reqs'[s].method = "DELETE"
  /\ OnCollection(reqs'[s])
  /\ ResourceId(reqs'[s].url) # ""
  /\ Str(ResourceId(reqs'[s].url)) \in IdsOf(data[ResourceName(reqs'[s].url)])

PutOfUnknown(s) ==
  /\ BodyEnded(s)
  /\ reqs[s].listener = "PUT"
  /\ OnCollection(reqs[s])
  /\ JSONParse(Concat(reqs[s].chunks)).ok
  /\ Str(ResourceId(reqs[s].url)) \notin IdsOf(data[ResourceName(reqs[s].url)])

C7_PutOnUnknownId ==
  [][ \A s \in Slots :
        PutOfUnknown(s) =>
          /\ reqs'[s].res.finished
          /\ reqs'[s].res.wireStatus = 404
          /\ reqs'[s].res.wireBody = << JsonError("Item not found") >>
          /\ data' = data
    ]_vars

C7_Witness ==
  \E s \in Slots :
    /\ reqs[s].phase = "done"
    /\ reqs[s].method = "PUT"
    /\ "end" \in reqs[s].invoked
    /\ OnCollection(reqs[s])
    /\ JSONParse(Concat(reqs[s].chunks)).ok
    /\ reqs[s].res.wireStatus = 404

(***************************************************************************)
(* C8.  A request to /api/<name>[/<id>] where <name> is no collection of   *)
(* the data set is answered 404 {error:"Resource not found"} under every   *)
(* method, without a body being read.  (The preflight that the CORS gate   *)
(* answers is left out of the statement.)                                  *)
(***************************************************************************)
C8_UnknownCollection404 ==
  \A s \in Slots :
    ( /\ reqs[s].phase # "idle"
      /\ IsApiUrl(reqs[s].url)
      /\ ResourceName(reqs[s].url) \notin DOMAIN data
      /\ ~Preflight(reqs[s]) )
      => /\ reqs[s].phase = "done"
         /\ reqs[s].res.wireStatus = 404
         /\ reqs[s].res.wireBody = << JsonError("Resource not found") >>
         /\ reqs[s].listener = "none"
         /\ reqs[s].chunks = << >>

(***************************************************************************)
(* C9.  With CORS enabled, an OPTIONS request with an Origin header to any *)
(* API path is answered 200 with Access-Control-Allow-Origin equal to the  *)
(* Origin, Access-Control-Allow-Methods 'GET, POST, PUT, DELETE' and an    *)
(* empty body, and the data set is the same before and after it.           *)
(***************************************************************************)
PreflightArrived(s) ==
  /\ Arrived(s)
  /\ Preflight(reqs'[s])
  /\ IsApiUrl(reqs'[s].url)

C9_PreflightAnswered ==
  [][ \A s \in Slots :
        PreflightArrived(s) =>
          LET res == reqs'[s].res
          IN /\ res.finished
             /\ res.wireStatus = 200
             /\ "Access-Control-Allow-Origin" \in DOMAIN res.wireHeaders
             /\ res.wireHeaders["Access-Control-Allow-Origin"] = Str(reqs'[s].origin)
             /\ "Access-Control-Allow-Methods" \in DOMAIN res.wireHeaders
             /\ res.wireHeaders["Access-Control-Allow-Methods"] = Str("GET, POST, PUT, DELETE")
             /\ res.wireBody = << >>
             /\ data' = data
    ]_vars

C9_Witness ==
  \E s \in Slots :
    /\ reqs[s].phase = "done"
    /\ Preflight(reqs[s])
    /\ IsApiUrl(reqs[s].url)
    /\ ResourceName(reqs[s].url) \notin DOMAIN data
    /\ reqs[s].res.wireStatus = 200

(***************************************************************************)
(* C10.  GET on a collection without id returns 200 with the full list in  *)
(* order; GET with an id returns 200 with the item for every item of the   *)
(* collection, addressed by its id as the url spells it, and 404           *)
(* {error:"Item not found"} only when no item has that id.                 *)
(***************************************************************************)
\* the id as a url segment spells it
IdText(item) == IdOf(item).v

C10_GetFindsEveryItem ==
  \A s \in Slots :
    (reqs[s].phase = "done" /\ reqs[s].method = "GET" /\ OnCollection(reqs[s])) =>
      LET list == data[ResourceName(reqs[s].url)]
          rid == ResourceId(reqs[s].url)
          res == reqs[s].res
      IN IF rid = ""
           THEN res.wireStatus = 200 /\ res.wireBody = << JsonList(list) >>
         ELSE IF \E i \in 1..Len(list) : IdText(list[i]) = rid
           THEN /\ res.wireStatus = 200
                /\ \E i \in 1..Len(list) :
                     IdText(list[i]) = rid /\ res.wireBody = << JsonItem(list[i]) >>
         ELSE /\ res.wireStatus = 404
              /\ res.wireBody = << JsonError("Item not found") >>

(***************************************************************************)
(* C11.  PUT with a valid JSON body on the id of an item of the collection *)
(* answers 200 with the merged item: for every top-level key of the body   *)
(* the body's value (the key id included), for every other key the item's  *)
(* previous value.  The item keeps its position in the list, no other item *)
(* and no other collection changes.                                        *)
(***************************************************************************)
PutOfExisting(s) ==
  /\ BodyEnded(s)
  /\ reqs[s].listener = "PUT"
  /\ OnCollection(reqs[s])
  /\ JSONParse(Concat(reqs[s].chunks)).ok
  /\ Str(ResourceId(reqs[s].url)) \in IdsOf(data[ResourceName(reqs[s].url)])

\* m is item with the fields of body laid over it
IsMergeOf(m, item, body) ==
  /\ DOMAIN m = (DOMAIN item) \cup (DOMAIN body)
  /\ \A k \in DOMAIN body : m[k] = body[k]
  /\ \A k \in (DOMAIN item) \ (DOMAIN body) : m[k] = item[k]

PostOfValidBody(s) ==
  /\ BodyEnded(s)
  /\ reqs[s].listener = "POST"
  /\ OnCollection(reqs[s])
  /\ JSONParse(Concat(reqs[s].chunks)).ok

\* the ids of all items of the data set d
AllIds(d) == UNION { IdsOf(d[c]) : c \in DOMAIN d }

C12_PostAppendsWithFreshId ==
  [][ \A s \in Slots :
        PostOfValidBody(s) =>
          LET c == ResourceName(reqs[s].url)
              body == JSONParse(Concat(reqs[s].chunks)).obj
              res == reqs'[s].res
              n == Len(data[c])
          IN /\ res.finished
             /\ res.wireStatus = 201
             /\ Len(data'[c]) = n + 1
             /\ \A j \in 1..n : data'[c][j] = data[c][j]
             /\ LET stored == data'[c][n + 1]
                IN /\ DOMAIN stored = (DOMAIN body) \cup { "id" }
                   /\ \A k \in (DOMAIN body) \ { "id" } : stored[k] = body[k]
                   /\ stored["id"] \notin AllIds(data)
                   /\ stored["id"] # IdOf(body)
                   /\ stored["id"] # Str(ResourceId(reqs[s].url))
                   /\ res.wireBody = << JsonItem(stored) >>
             /\ \A o \in DOMAIN data \ { c } : data'[o] = data[o]
    ]_vars

\* a POST to a path with an id segment, whose body supplied an id, has been
\* answered 201
C12_Witness ==
  \E s \in Slots :
    /\ reqs[s].phase = "done"
    /\ reqs[s].method = "POST"
    /\ reqs[s].res.wireStatus = 201
    /\ OnCollection(reqs[s])
    /\ ResourceId(reqs[s].url) = "a"
    /\ JSONParse(Concat(reqs[s].chunks)).obj = [id |-> Str("b")]
    /\ LET list == data[ResourceName(reqs[s].url)]
       IN /\ Len(list) > 0
          /\ IdOf(list[Len(list)]) \notin { Str("a"), Str("b") }

(***************************************************************************)
(* C13.  On a collection, PUT or DELETE without an id segment is answered  *)
(* 400 {error:"Resource ID is required"} at arrival, no body being waited  *)
(* for or read, and a method other than GET, POST, PUT, DELETE is answered *)
(* 405 {error:"Method not allowed"}; the data set is unchanged.            *)
(***************************************************************************)
NeedsId(req) == req.method \in { "PUT", "DELETE" } /\ ResourceId(req.url) = ""

Unhandled(req) == req.method \notin { "GET", "POST", "PUT", "DELETE" }

\* the answer is the error `msg` under `status`, given at arrival
AnsweredAtArrival(req, status, msg) ==
  /\ req.phase = "done"
  /\ req.res.finished
  /\ req.res.wireStatus = status
  /\ req.res.wireBody = << JsonError(msg) >>
  /\ req.listener = "none"
  /\ req.chunks = << >>

\* as the claim words it: every request on a collection
C13_MissingIdOrMethod ==
  [][ \A s \in Slots :
        (Arrived(s) /\ OnCollection(reqs'[s])) =>
          /\ NeedsId(reqs'[s]) =>
               AnsweredAtArrival(reqs'[s], 400, "Resource ID is required") /\ data' = data
          /\ Unhandled(reqs'[s]) =>
               AnsweredAtArrival(reqs'[s], 405, "Method not allowed") /\ data' = data
    ]_vars

\* C13, for the requests that the CORS gate has not answered: an OPTIONS
\* request with an Origin header is a preflight when CORS is enabled, and
\* its answer is the gate's 200
C13_MissingIdOrMethodPastTheGate ==
  [][ \A s \in Slots :
        (Arrived(s) /\ OnCollection(reqs'[s]) /\ ~Preflight(reqs'[s])) =>
          /\ NeedsId(reqs'[s]) =>
               AnsweredAtArrival(reqs'[s], 400, "Resource ID is required") /\ data' = data
          /\ Unhandled(reqs'[s]) =>
               AnsweredAtArrival(reqs'[s], 405, "Method not allowed") /\ data' = data
    ]_vars

\* with CORS enabled, an OPTIONS request without an Origin header (no
\* preflight) has been answered 405 while a PUT with an id is waiting for
\* its body
C13_Witness ==
  \E s, t \in Slots :
    /\ cors
    /\ reqs[s].method = "OPTIONS"
    /\ reqs[s].origin = ""
    /\ OnCollection(reqs[s])
    /\ AnsweredAtArrival(reqs[s], 405, "Method not allowed")
    /\ reqs[t].phase = "active"
    /\ reqs[t].listener = "PUT"

(***************************************************************************)
(* C14.  A server constructed without a cache option has the cache         *)
(* negotiator enabled: its file responses carry the Etag header and        *)
(* Cache-Control: max-age=10.                                              *)
(***************************************************************************)
FileAnswered(req) ==
  /\ req.phase = "done"
  /\ ~DecodeThrows(req.url)
  /\ ~IsApiUrl(req.url)
  /\ PathKind(req.url) = "file"
  /\ ~OpenThrows(req.url)
  /\ ~Preflight(req)
  /\ req.res.finished

C14_CacheOnByDefault ==
  \A s \in Slots :
    (options.cache = "absent" /\ FileAnswered(reqs[s])) =>
      /\ cache
      /\ "Etag" \in DOMAIN reqs[s].res.wireHeaders
      /\ reqs[s].res.wireHeaders["Etag"] = Etag(FileStat(reqs[s].url))
      /\ "Cache-Control" \in DOMAIN reqs[s].res.wireHeaders
      /\ reqs[s].res.wireHeaders["Cache-Control"] = Str("max-age=10")

(***************************************************************************)
(* C15.  A failure raised inside the static handler after classification   *)
(* (a directory that cannot be read, a child that cannot be stat'ed, a     *)
(* file that cannot be opened) is caught at the handler boundary and       *)
(* converted to a response for that request; the process keeps running.    *)
(***************************************************************************)
FailsInStaticHandler(url) ==
  /\ ~DecodeThrows(url)
  /\ ~IsApiUrl(url)
  /\ \/ PathKind(url) = "dir" /\ (ReaddirThrows(url) \/ ChildStatThrows(url))
     \/ PathKind(url) = "file" /\ OpenThrows(url)

C15_StaticFailuresAnswered ==
  \A s \in Slots :
    ( /\ reqs[s].phase = "done"
      /\ FailsInStaticHandler(reqs[s].url)
      /\ ~Preflight(reqs[s]) )
      => /\ reqs[s].res.finished
         /\ reqs[s].fault = "none"
         /\ running

(***************************************************************************)
(* C16.  Interleaving never corrupts a collection: under every             *)
(* interleaving of the body chunks and completions of concurrent POST, PUT *)
(* and DELETE requests with valid bodies, the data set and every answer    *)
(* are those obtained by applying the requests one at a time, atomically,  *)
(* in the order in which their bodies completed (DELETE at arrival).  So a *)
(* PUT whose item was deleted before its body completed answers 404 and    *)
(* does not re-create the item, and two PUTs that write different fields   *)
(* of one item both take effect.                                           *)
(***************************************************************************)
\* the position of the first item of list with the id rid, or 0
PositionOf(list, rid) ==
  LET hits == { i \in 1..Len(list) : IdOf(list[i]) = Str(rid) }
  IN IF hits = {} THEN 0 ELSE CHOOSE i \in hits : \A j \in hits : i <= j

AtomicOut(d, status, answer) == [ data |-> d, status |-> status, answer |-> answer ]

\* request e applied to the data set d in one step
Atomic(d, e) ==
  LET list == d[e.name]
      i == PositionOf(list, e.rid)
  IN CASE e.method = "POST" ->
            LET item == [k \in (DOMAIN e.body) \cup { "id" } |->
                           IF k = "id" THEN e.id ELSE e.body[k]]
            IN AtomicOut([d EXCEPT ![e.name] = list \o << item >>], 201, << JsonItem(item) >>)
       [] e.method = "PUT" ->
            IF i = 0 THEN AtomicOut(d, 404, << JsonError("Item not found") >>)
            ELSE LET item == [k \in (DOMAIN list[i]) \cup (DOMAIN e.body) |->
                                IF k \in DOMAIN e.body THEN e.body[k] ELSE list[i][k]]
                 IN AtomicOut([d EXCEPT ![e.name] =
                                 [j \in 1..Len(list) |-> IF j = i THEN item ELSE list[j]]],
                              200, << JsonItem(item) >>)
       [] OTHER ->
            IF e.rid = "" THEN AtomicOut(d, 400, << JsonError("Resource ID is required") >>)
            ELSE IF i = 0 THEN AtomicOut(d, 404, << JsonError("Item not found") >>)
            ELSE AtomicOut([d EXCEPT ![e.name] = Without(list, i)], 204, << >>)

\* the data set after the requests of l, applied in order to seed
RECURSIVE StoreAfter(_, _)
StoreAfter(seed, l) ==
  IF l = << >> THEN seed
  ELSE Atomic(StoreAfter(seed, SubSeq(l, 1, Len(l) - 1)), l[Len(l)]).data

C16_SerialInCompletionOrder ==
  /\ data = StoreAfter(ConstructData(options), log)
  /\ \A i \in 1..Len(log) :
       LET out == Atomic(StoreAfter(ConstructData(options), SubSeq(log, 1, i - 1)), log[i])
       IN /\ log[i].status = out.status
          /\ log[i].answer = out.answer

\* two PUTs on one item were in flight together, the one that arrived
\* second completed first, they wrote different fields, and the item has both
C16_Witness ==
  /\ Len(log) = 2
  /\ log[1].method = "PUT" /\ log[1].slot = 2 /\ log[1].status = 200
  /\ log[2].method = "PUT" /\ log[2].slot = 1 /\ log[2].status = 200
  /\ log[1].name = log[2].name /\ log[1].rid = log[2].rid
  /\ DOMAIN log[1].body = { "name" }
  /\ DOMAIN log[2].body = { "age" }
  /\ \E i \in 1..Len(data[log[1].name]) :
       LET item == data[log[1].name][i]
       IN /\ IdOf(item) = Str(log[1].rid)
          /\ { "name", "age" } \subseteq DOMAIN item
          /\ item["name"] = log[1].body["name"]
          /\ item["age"] = log[2].body["age"]

\* a PUT was in flight when its item was deleted, and was answered 404
C16_WitnessDeleted ==
  /\ Len(log) = 2
  /\ log[1].method = "DELETE" /\ log[1].slot = 2 /\ log[1].status = 204
  /\ log[2].method = "PUT" /\ log[2].slot = 1 /\ log[2].status = 404
  /\ log[1].name = log[2].name /\ log[1].rid = log[2].rid
  /\ Str(log[1].rid) \notin IdsOf(data[log[1].name])

(***************************************************************************)
(* C17.  A POST or PUT whose body never completes receives no response,    *)
(* and it blocks no other request: every other request that arrives, and   *)
(* (for POST and PUT) whose own body completes, is answered.  The API      *)
(* handler answers in the turn in which the request arrives or its body    *)
(* completes, so a request whose callbacks have all run has been answered. *)
(***************************************************************************)
\* the request waits for the rest of its body
Stalled(req) == req.phase = "active" /\ req.listener # "none"

C17_StalledBodyBlocksNothing ==
  \A s, t \in Slots :
    (s # t /\ Stalled(reqs[s])) =>
      /\ ~reqs[s].res.headersSent
      /\ reqs[s].res.wireBody = << >>
      /\ reqs[t].phase = "done" => reqs[t].res.finished

(***************************************************************************)
(* C18.  Every request is classified by its decoded path into exactly one  *)
(* handler: a path with the API prefix goes to the API handler, every      *)
(* other path is resolved under the root directory by the static handler.  *)
(* A request that is no API request and whose url fails to decode, or      *)
(* whose path does not exist under the root, is answered 404 with the      *)
(* plain text 'Not found'; the API handler and the data set are not        *)
(* touched.  (The preflight that the CORS gate answers is left out.)       *)
(***************************************************************************)
ExistsUnderRoot(url) == UnderRoot(url) /\ PathKind(url) # "missing"

C18_ClassifiedOr404 ==
  \A s \in Slots :
    (reqs[s].phase = "done" /\ ~Preflight(reqs[s])) =>
      /\ (~DecodeThrows(reqs[s].url) /\ IsApiUrl(reqs[s].url))
           => (reqs[s].invoked \cap { "api", "static" } = { "api" })
      /\ (DecodeThrows(reqs[s].url) \/ ~IsApiUrl(reqs[s].url))
           => "api" \notin reqs[s].invoked
      /\ (DecodeThrows(reqs[s].url)
            \/ (~IsApiUrl(reqs[s].url) /\ ~ExistsUnderRoot(reqs[s].url)))
           => /\ reqs[s].res.finished
              /\ reqs[s].res.wireStatus = 404
              /\ reqs[s].res.wireBody = << PlainText("Not found") >>
              /\ "static" \notin reqs[s].invoked
              /\ data = ConstructData(options)

(***************************************************************************)
(* C19.  The data set is mutated only by successful API mutations: it      *)
(* changes only in a step that answers 201 to a POST, 200 to a PUT or 204  *)
(* to a DELETE.  Every GET, every preflight and every request answered     *)
(* 400, 404, 405 or 500 leaves it unchanged, and the set of collection     *)
(* names never changes after construction.                                 *)
(***************************************************************************)
\* the request on connection s was answered with `status` in this step, at
\* arrival or when its body completed
AnsweredNow(s, method, status) ==
  /\ Arrived(s) \/ BodyEnded(s)
  /\ reqs'[s].method = method
  /\ reqs'[s].res.finished
  /\ reqs'[s].res.wireStatus = status

C19_OnlySuccessfulMutationsChangeData ==
  [][ /\ data' # data =>
           \E s \in Slots :
             \/ BodyEnded(s) /\ AnsweredNow(s, "POST", 201)
             \/ BodyEnded(s) /\ AnsweredNow(s, "PUT", 200)
             \/ Arrived(s) /\ AnsweredNow(s, "DELETE", 204)
      /\ \A s \in Slots :
           ( /\ Arrived(s) \/ BodyEnded(s)
             /\ \/ reqs'[s].method = "GET"
                \/ Preflight(reqs'[s])
                \/ reqs'[s].res.wireStatus \in { 400, 404, 405, 500 } )
             => data' = data
      /\ DOMAIN data' = DOMAIN data
    ]_vars

\* a POST has changed the data set, and a PUT answered 404 after it has
\* left it as the POST made it
C19_Witness ==
  /\ Len(log) = 2
  /\ log[1].method = "POST" /\ log[1].status = 201
  /\ log[2].method = "PUT" /\ log[2].status = 404
  /\ log[1].name = log[2].name
  /\ data # ConstructData(options)
  /\ data = StoreAfter(ConstructData(options), << log[1] >>)

(***************************************************************************)
(* C20.  For every request, on every path through the dispatcher, the      *)
(* response is ended at most once, and once it has been ended no status    *)
(* code, header or body byte is set or written on it.                      *)
(***************************************************************************)
C20_EndedOnceAndLeftAlone ==
  \A s \in Slots :
    /\ reqs[s].res.ends <= 1
    /\ reqs[s].res.finished => reqs[s].res.late = {}

====
